---- MODULE Spec2Model ----
(***************************************************************************)
(* so-lookup: scan a tree of executables, read each one's DT_NEEDED        *)
(* entries, aggregate (machine, soname) -> dependent paths, and write one  *)
(* ranked report file per machine.  Model of src/src/main.rs.              *)
(*                                                                         *)
(* A file is the part of an ELF image the program looks at: whether it can *)
(* be read, whether goblin accepts it, e_machine, one PT_LOAD program      *)
(* header, the dynamic table, and the bytes the string table lives in.     *)
(* Bytes are small naturals, 0 is NUL.  A soname is the sequence of its    *)
(* bytes; a path is the sequence of its components.                        *)
(***************************************************************************)
EXTENDS Integers, Sequences, FiniteSets, TLC

\* ------------------------------------------------------------------ bounds
\* number of executables found by the directory walk
MaxFiles == 2
\* longest run of DT_NEEDED entries in one dynamic table
MaxNeeded == 2

\* ------------------------------------------------- constants of the format
DT_NEEDED == 1
DT_STRTAB == 5
DT_STRSZ == 10
EM_NONE == 0
EM_386 == 3
EM_X86_64 == 62
EM_UNKNOWN == 65535

\* fs       what std::fs::read and Elf::parse find at each path (line 32-34)
\* todo     the paths the walk has yet to hand to the loop (lines 66-79)
\* aboba    machine -> soname -> paths, as pushed (line 64)
\* results  what process_one returned, or "Panic", for each path done (line 80)
\* pc       "scan" (lines 70-90), "report" (92-108), "done", "panicked"
\* written  the machines the report loop has consumed (line 92)
\* reports  file name -> the entries written to it (lines 95-106)
VARIABLES fs, todo, aboba, results, pc, written, reports

vars == <<fs, todo, aboba, results, pc, written, reports>>

\* ------------------------------------------------------------ orderings
\* Ord of String (bytes) and of PathBuf (components): lexicographic.
RECURSIVE LexLess(_, _)
LexLess(a, b) ==
    IF a = <<>> THEN b # <<>>
    ELSE IF b = <<>> THEN FALSE
    ELSE IF Head(a) < Head(b) THEN TRUE
    ELSE IF Head(a) > Head(b) THEN FALSE
    ELSE LexLess(Tail(a), Tail(b))

LexLeq(a, b) == a = b \/ LexLess(a, b)

\* ------------------------------------------------------------ goblin side
\* program_header::vm_to_offset over the file's PT_LOAD header: <<off>> or <<>>.
vm_to_offset(ph, address) ==
    IF address >= ph.p_vaddr /\ address - ph.p_vaddr < ph.p_memsz
    THEN <<ph.p_offset + (address - ph.p_vaddr)>>
    ELSE <<>>

\* iter().find(|t| t.d_tag == tag).map(|t| t.d_val): <<val>> of the first match, or <<>>.
RECURSIVE FindTag(_, _)
FindTag(dyns, tag) ==
    IF dyns = <<>> THEN <<>>
    ELSE IF Head(dyns).d_tag = tag THEN <<Head(dyns).d_val>>
    ELSE FindTag(Tail(dyns), tag)

\* Strtab::parse(bytes, offset, len, 0): <<table>> when the window lies in the file, else <<>>.
StrtabParse(bytes, offset, len) ==
    IF offset + len > Len(bytes) THEN <<>>
    ELSE <<SubSeq(bytes, offset + 1, offset + len)>>

\* the bytes of table from 0-based offset off up to the next NUL or the end of the table
RECURSIVE StrAt(_, _)
StrAt(table, off) ==
    IF off >= Len(table) \/ table[off + 1] = 0 THEN <<>>
    ELSE <<table[off + 1]>> \o StrAt(table, off + 1)

\* Strtab::get_at(off): <<name>> or <<>>.  An offset equal to the table's length
\* resolves (to the empty name) only behind a last string that has no NUL.
GetAt(table, off) ==
    IF off < Len(table) THEN <<StrAt(table, off)>>
    ELSE IF off = Len(table) /\ Len(table) > 0 /\ table[Len(table)] # 0 THEN << <<>> >>
    ELSE <<>>

\* Dynamic::get_libraries(&table): one name per DT_NEEDED entry, in table order;
\* an entry whose offset get_at cannot resolve is left out (goblin only logs it).
RECURSIVE get_libraries(_, _)
get_libraries(dyns, table) ==
    IF dyns = <<>> THEN <<>>
    ELSE (IF Head(dyns).d_tag = DT_NEEDED THEN GetAt(table, Head(dyns).d_val) ELSE <<>>)
         \o get_libraries(Tail(dyns), table)

Unwrap0(opt) == IF opt = <<>> THEN 0 ELSE opt[1]

\* DynamicInfo: DT_STRTAB translated through the program header (0 when absent
\* or unmapped), DT_STRSZ as given (0 when absent).
InfoStrtab(file) ==
    LET t == FindTag(file.dyns, DT_STRTAB)
    IN IF t = <<>> THEN 0 ELSE Unwrap0(vm_to_offset(file.phdr, t[1]))

InfoStrsz(file) == Unwrap0(FindTag(file.dyns, DT_STRSZ))

\* Elf::parse(&file): fails on a bad header, and on a dynamic string table whose
\* translated window leaves the file.
ElfParseOk(file) ==
    /\ file.elf
    /\ file.dynamic => StrtabParse(file.bytes, InfoStrtab(file), InfoStrsz(file)) # <<>>

\* machine_to_str: every machine goblin has no name for prints as "NONE".
machine_to_str(machine) ==
    IF machine = EM_386 THEN "386"
    ELSE IF machine = EM_X86_64 THEN "X86_64"
    ELSE "NONE"

\* ------------------------------------------------------------- process_one
Err(kind) == [kind |-> kind, machine |-> 0, libs |-> <<>>]

\* lines 36-49: the table is cut at the raw DT_STRTAB value, with DT_STRSZ bytes
TableOf(file) ==
    StrtabParse(file.bytes, FindTag(file.dyns, DT_STRTAB)[1], FindTag(file.dyns, DT_STRSZ)[1])

process_one(file) ==
    IF ~file.readable THEN Err("CannotRead")
    ELSE IF ~ElfParseOk(file) THEN Err("NotAnElf")
    ELSE IF ~file.dynamic THEN Err("NotDynamic")
    ELSE IF FindTag(file.dyns, DT_STRTAB) = <<>> \/ FindTag(file.dyns, DT_STRSZ) = <<>>
         THEN Err("Panic")
    ELSE IF TableOf(file) = <<>> THEN Err("StrtableBad")
    ELSE [kind |-> "Ok", machine |-> file.e_machine,
          libs |-> get_libraries(file.dyns, TableOf(file)[1])]

ErrorKinds == {"CannotRead", "NotAnElf", "NotDynamic", "StrtableBad"}

\* --------------------------------------------------------------- the fold
EmptyMap == <<>>

Entry(map, key, default) == IF key \in DOMAIN map THEN map[key] ELSE default

\* FoldLib with the path put in front of the list
FoldLibFront(ab, machine, lib, f) ==
    LET inner == IF machine \in DOMAIN ab THEN ab[machine] ELSE <<>>
        exes == IF lib \in DOMAIN inner THEN inner[lib] ELSE <<>>
    IN (machine :> ((lib :> (<<f>> \o exes)) @@ inner)) @@ ab

\* lines 83-87: aboba.entry(machine).or_insert(..).entry(lib).or_insert(..).push(f)
FoldLib(ab, machine, lib, f) ==
    LET inner == Entry(ab, machine, EmptyMap)
    IN (machine :> ((lib :> Append(Entry(inner, lib, <<>>), f)) @@ inner)) @@ ab

\* lines 82-88: for lib in res
RECURSIVE FoldLibs(_, _, _, _)
FoldLibs(ab, machine, libs, f) ==
    IF libs = <<>> THEN ab
    ELSE FoldLibs(FoldLib(ab, machine, Head(libs), f), machine, Tail(libs), f)

\* ------------------------------------------------------------ the report
MinKey(keys) == CHOOSE k \in keys : \A j \in keys : LexLeq(k, j)

\* BTreeMap::into_iter: (soname, exes) pairs in ascending soname order
RECURSIVE BTreeIter(_)
BTreeIter(inner) ==
    IF DOMAIN inner = {} THEN <<>>
    ELSE LET k == MinKey(DOMAIN inner)
         IN <<[soname |-> k, exes |-> inner[k]]>>
            \o BTreeIter([j \in DOMAIN inner \ {k} |-> inner[j]])

\* put e behind every element whose key is not larger: a stable insertion
RECURSIVE InsertByLen(_, _)
InsertByLen(sorted, e) ==
    IF sorted = <<>> THEN <<e>>
    ELSE IF Len(Head(sorted).exes) <= Len(e.exes)
         THEN <<Head(sorted)>> \o InsertByLen(Tail(sorted), e)
    ELSE <<e>> \o sorted

\* Itertools::sorted_by_key(|(_, exes)| exes.len()): stable, ascending
RECURSIVE SortedByLen(_)
SortedByLen(s) ==
    IF s = <<>> THEN <<>>
    ELSE InsertByLen(SortedByLen(SubSeq(s, 1, Len(s) - 1)), s[Len(s)])

Rev(s) == [i \in 1..Len(s) |-> s[Len(s) + 1 - i]]

\* Ranked without the .rev()
RankedNoRev(inner) == SortedByLen(BTreeIter(inner))

\* lines 97-100
Ranked(inner) == Rev(SortedByLen(BTreeIter(inner)))

\* InsertPath with the comparison turned round
RECURSIVE InsertPathDesc(_, _)
InsertPathDesc(sorted, p) ==
    IF sorted = <<>> THEN <<p>>
    ELSE IF LexLeq(p, Head(sorted)) THEN <<Head(sorted)>> \o InsertPathDesc(Tail(sorted), p)
    ELSE <<p>> \o sorted

RECURSIVE InsertPath(_, _)
InsertPath(sorted, p) ==
    IF sorted = <<>> THEN <<p>>
    ELSE IF LexLeq(Head(sorted), p) THEN <<Head(sorted)>> \o InsertPath(Tail(sorted), p)
    ELSE <<p>> \o sorted

\* SortExes left out: the list as accumulated
SortExesMissing(exes) == exes

\* line 103: exes.sort()
RECURSIVE SortExes(_)
SortExes(exes) ==
    IF exes = <<>> THEN <<>>
    ELSE InsertPath(SortExes(Tail(exes)), Head(exes))

\* lines 102-106: the header line's soname and count, then one line per path
ReportOf(inner) ==
    LET r == Ranked(inner)
    IN [i \in 1..Len(r) |->
          [soname |-> r[i].soname, count |-> Len(r[i].exes), exes |-> SortExes(r[i].exes)]]

\* line 95: format!("m_{}.txt", machine)
FileName(machine) == "m_" \o machine_to_str(machine) \o ".txt"

\* ------------------------------------------------------------- the inputs
\* File images: the bytes the string table windows are cut from.
ImageA == <<1, 2, 0, 3>>
ImageB == <<1, 0, 2, 0>>

\* A PT_LOAD header that maps addresses to equal file offsets, and one that
\* maps address 1 to file offset 0.
IdentityPhdr == [p_vaddr |-> 0, p_offset |-> 0, p_memsz |-> 4]
ShiftedPhdr == [p_vaddr |-> 1, p_offset |-> 0, p_memsz |-> 4]

Unreadable ==
    [readable |-> FALSE, elf |-> FALSE, e_machine |-> EM_NONE, phdr |-> IdentityPhdr,
     dynamic |-> FALSE, dyns |-> <<>>, bytes |-> <<>>]

Garbage ==
    [readable |-> TRUE, elf |-> FALSE, e_machine |-> EM_NONE, phdr |-> IdentityPhdr,
     dynamic |-> FALSE, dyns |-> <<>>, bytes |-> ImageA]

StaticFiles(machines) ==
    {[readable |-> TRUE, elf |-> TRUE, e_machine |-> m, phdr |-> IdentityPhdr,
      dynamic |-> FALSE, dyns |-> <<>>, bytes |-> ImageA] : m \in machines}

\* every run of at most n DT_NEEDED offsets drawn from offs
NeededSeqs(offs, n) == UNION {[1..k -> offs] : k \in 0..n}

Tagged(tag, vals) == [i \in 1..Len(vals) |-> [d_tag |-> tag, d_val |-> vals[i]]]

\* tab and sz hold the DT_STRTAB and DT_STRSZ value, or are empty when the tag is absent
MkDyns(tab, sz, needed) ==
    Tagged(DT_STRTAB, tab) \o Tagged(DT_STRSZ, sz) \o Tagged(DT_NEEDED, needed)

DynFiles(machines, images, phdrs, tabs, sizes, needs) ==
    {[readable |-> TRUE, elf |-> TRUE, e_machine |-> m, phdr |-> ph, dynamic |-> TRUE,
      dyns |-> MkDyns(t, z, n), bytes |-> img] :
        m \in machines, img \in images, ph \in phdrs, t \in tabs, z \in sizes, n \in needs}

\* The files of the scanned tree: the four ways to fail, the way to panic, and
\* well-formed dynamic executables of two machines over a 3-byte table.
ScanFiles ==
    {Unreadable, Garbage} \cup StaticFiles({EM_386})
    \cup DynFiles({EM_386}, {ImageA}, {ShiftedPhdr}, {<<>>, <<1>>}, {<<4>>}, {<<0>>})
    \cup DynFiles({EM_386, EM_X86_64}, {ImageA}, {IdentityPhdr}, {<<0>>}, {<<3>>},
                  NeededSeqs(0..1, MaxNeeded))

\* One file drawn from every layout of tags, windows and offsets.
AnyFiles ==
    {Unreadable, Garbage} \cup StaticFiles({EM_386})
    \cup DynFiles({EM_386, EM_X86_64}, {ImageA, ImageB}, {IdentityPhdr, ShiftedPhdr},
                  {<<>>, <<0>>, <<1>>}, {<<>>} \cup {<<z>> : z \in 0..4},
                  NeededSeqs(0..4, MaxNeeded))

\* Files that differ in machine only, with and without a dependency.
ArchFiles ==
    {Garbage} \cup StaticFiles({EM_386})
    \cup DynFiles({EM_386}, {ImageA}, {IdentityPhdr}, {<<>>}, {<<3>>}, {<<0>>})
    \cup DynFiles({EM_NONE, EM_386, EM_X86_64, EM_UNKNOWN}, {ImageA}, {IdentityPhdr},
                  {<<0>>}, {<<3>>}, NeededSeqs(0..0, MaxNeeded))

\* directory and file-name component of the i-th executable of the walk
PathName(i) == <<(i % 2) + 1, i>>

Tree == {PathName(i) : i \in 1..MaxFiles}

\* -------------------------------------------------------------- the program
InitWith(tree, files) ==
    /\ fs \in [tree -> files]
    /\ todo = tree
    /\ aboba = EmptyMap
    /\ results = EmptyMap
    /\ pc = "scan"
    /\ written = {}
    /\ reports = EmptyMap

Init == InitWith(Tree, ScanFiles)

InitOne == InitWith({PathName(1)}, AnyFiles)

InitArch == InitWith(Tree, ArchFiles)

\* Folded with the machine's entry made before the loop over the libraries
FoldedEager(ab, r, f) ==
    FoldLibs((r.machine :> Entry(ab, r.machine, EmptyMap)) @@ ab, r.machine, r.libs, f)

\* lines 81-88: the whole body of `if let Ok((machine, res)) = res`
Folded(ab, r, f) == FoldLibs(ab, r.machine, r.libs, f)

\* lines 80-89 for a file process_one accepts
Fold(f) ==
    /\ pc = "scan"
    /\ process_one(fs[f]).kind = "Ok"
    /\ aboba' = Folded(aboba, process_one(fs[f]), f)
    /\ results' = (f :> process_one(fs[f])) @@ results
    /\ todo' = todo \ {f}
    /\ UNCHANGED <<fs, pc, written, reports>>

\* Skip that still records the path, under the empty soname
SkipRecords(f) ==
    /\ pc = "scan"
    /\ process_one(fs[f]).kind \in ErrorKinds
    /\ aboba' = FoldLib(aboba, process_one(fs[f]).machine, <<>>, f)
    /\ results' = (f :> process_one(fs[f])) @@ results
    /\ todo' = todo \ {f}
    /\ UNCHANGED <<fs, pc, written, reports>>

\* lines 80-89 for a file process_one returns Err for
Skip(f) ==
    /\ pc = "scan"
    /\ process_one(fs[f]).kind \in ErrorKinds
    /\ results' = (f :> process_one(fs[f])) @@ results
    /\ todo' = todo \ {f}
    /\ UNCHANGED <<fs, aboba, pc, written, reports>>

\* lines 41 and 47: unwrap() of a tag that is not there ends the process
Abort(f) ==
    /\ pc = "scan"
    /\ process_one(fs[f]).kind = "Panic"
    /\ results' = (f :> process_one(fs[f])) @@ results
    /\ todo' = todo \ {f}
    /\ pc' = "panicked"
    /\ UNCHANGED <<fs, aboba, written, reports>>

\* line 90: the walk is exhausted
EndScan ==
    /\ pc = "scan"
    /\ todo = {}
    /\ pc' = "report"
    /\ UNCHANGED <<fs, todo, aboba, results, written, reports>>

\* lines 92-107 for the next machine of the outer BTreeMap; File::create truncates
EmitReport ==
    /\ pc = "report"
    /\ DOMAIN aboba # written
    /\ LET machine == CHOOSE m \in DOMAIN aboba \ written :
                          \A n \in DOMAIN aboba \ written : m <= n
       IN /\ reports' = (FileName(machine) :> ReportOf(aboba[machine])) @@ reports
          /\ written' = written \cup {machine}
    /\ UNCHANGED <<fs, todo, aboba, results, pc>>

\* line 109
Exit ==
    /\ pc = "report"
    /\ DOMAIN aboba = written
    /\ pc' = "done"
    /\ UNCHANGED <<fs, todo, aboba, results, written, reports>>

Next ==
    \/ \E f \in todo : Fold(f)
    \/ \E f \in todo : Skip(f)
    \/ \E f \in todo : Abort(f)
    \/ EndScan
    \/ EmitReport
    \/ Exit

Spec == Init /\ [][Next]_vars

SpecOne == InitOne /\ [][Next]_vars

SpecArch == InitArch /\ [][Next]_vars

\* ------------------------------------------------- vocabulary of the claims
Range(s) == {s[i] : i \in 1..Len(s)}

Keys(ab) == UNION {{<<m, l>> : l \in DOMAIN ab[m]} : m \in DOMAIN ab}

PathsOf(ab, m, l) == IF m \in DOMAIN ab /\ l \in DOMAIN ab[m] THEN ab[m][l] ELSE <<>>

Repeat(x, n) == [i \in 1..n |-> x]

Count(l, libs) == Cardinality({i \in 1..Len(libs) : libs[i] = l})

NoRepeat(s) == \A i, j \in 1..Len(s) : s[i] = s[j] => i = j

Ascending(s) == \A i \in 1..Len(s) - 1 : LexLeq(s[i], s[i + 1])

ListedInAboba(f) == \E k \in Keys(aboba) : f \in Range(aboba[k[1]][k[2]])

ListedInReports(f) ==
    \E n \in DOMAIN reports : \E i \in 1..Len(reports[n]) : f \in Range(reports[n][i].exes)

\* the machine whose report the file called n holds: the last one written under that name
Owner(n) ==
    CHOOSE m \in written :
        /\ FileName(m) = n
        /\ \A k \in written : FileName(k) = n => k <= m

Processed == DOMAIN results

\* process_one got as far as cutting the string table: the file was read, goblin
\* parsed it, and it has a dynamic section
ReachesTable(file) == file.readable /\ ElfParseOk(file) /\ file.dynamic

HasBothTags(file) ==
    FindTag(file.dyns, DT_STRTAB) # <<>> /\ FindTag(file.dyns, DT_STRSZ) # <<>>

\* the scan and the report run over the files in ascending path order
RECURSIVE PathsInOrder(_)
PathsInOrder(paths) ==
    IF paths = {} THEN <<>>
    ELSE <<MinKey(paths)>> \o PathsInOrder(paths \ {MinKey(paths)})

RECURSIVE ScanInOrder(_, _)
ScanInOrder(ab, order) ==
    IF order = <<>> THEN ab
    ELSE LET r == process_one(fs[Head(order)])
         IN ScanInOrder(IF r.kind = "Ok" THEN Folded(ab, r, Head(order)) ELSE ab, Tail(order))

RECURSIVE EmitAll(_, _, _)
EmitAll(ab, left, reps) ==
    IF left = {} THEN reps
    ELSE LET m == CHOOSE k \in left : \A j \in left : k <= j
         IN EmitAll(ab, left \ {m}, (FileName(m) :> ReportOf(ab[m])) @@ reps)

InOrderAboba == ScanInOrder(EmptyMap, PathsInOrder(DOMAIN fs))

\* ------------------------------------------------------------------ claims

\* C1 (as amended): every report file lists exactly the libraries of its machine,
\* each with its number of accumulated paths, in descending order of that number;
\* libraries with the same number appear in DESCENDING order of soname.
C1_RankedCountThenNameDescending ==
    \A n \in DOMAIN reports :
        LET r == reports[n]
            own == aboba[Owner(n)]
        IN /\ {r[i].soname : i \in 1..Len(r)} = DOMAIN own
           /\ Len(r) = Cardinality(DOMAIN own)
           /\ \A i \in 1..Len(r) : r[i].count = Len(own[r[i].soname])
           /\ \A i, j \in 1..Len(r) :
                  i < j => \/ r[i].count > r[j].count
                           \/ r[i].count = r[j].count /\ LexLess(r[j].soname, r[i].soname)

\* C1 as stated: descending count, ties in ascending order of soname.
C1_TiesAscending ==
    \A n \in DOMAIN reports :
        \A i, j \in 1..Len(reports[n]) :
            i < j => \/ reports[n][i].count > reports[n][j].count
                     \/ /\ reports[n][i].count = reports[n][j].count
                        /\ LexLess(reports[n][i].soname, reports[n][j].soname)

\* a finished scan with a report that holds two libraries of equal count
C1_Witness ==
    /\ pc = "done"
    /\ \E n \in DOMAIN reports : \E i, j \in 1..Len(reports[n]) :
           i < j /\ reports[n][i].count = reports[n][j].count

\* C2: a step that processes a file process_one returns an error for leaves the
\* accumulator as it was and the scan running on the remaining files, and no
\* file that failed is listed under any key or in any report.
C2_FailureLeavesNoTrace ==
    [][/\ \A f \in todo :
              (todo' = todo \ {f} /\ process_one(fs[f]).kind \in ErrorKinds)
                  => aboba' = aboba /\ pc' = "scan" /\ written' = written
       /\ \A f \in DOMAIN results' :
              results'[f].kind \in ErrorKinds => ~ListedInAboba(f)' /\ ~ListedInReports(f)'
      ]_vars

\* a finished scan in which one file failed and another is in a report
C2_Witness ==
    /\ pc = "done"
    /\ \E f \in Processed : results[f].kind \in ErrorKinds
    /\ \E g \in Processed : results[g].kind = "Ok" /\ ListedInReports(g)

\* C3: a file with a dynamic section but without DT_STRTAB or DT_STRSZ makes
\* process_one return StrtableBad, and the process does not panic.
C3_MissingTagIsStrtableBad ==
    \A f \in Processed :
        (ReachesTable(fs[f]) /\ ~HasBothTags(fs[f]))
            => results[f].kind = "StrtableBad" /\ pc # "panicked"

\* C4: a DT_NEEDED entry whose offset is at or past DT_STRSZ makes the file fail
\* with StrtableBad.
C4_OffsetPastTableIsStrtableBad ==
    \A f \in Processed :
        (/\ ReachesTable(fs[f])
         /\ HasBothTags(fs[f])
         /\ \E i \in 1..Len(fs[f].dyns) :
                /\ fs[f].dyns[i].d_tag = DT_NEEDED
                /\ fs[f].dyns[i].d_val >= FindTag(fs[f].dyns, DT_STRSZ)[1])
            => results[f].kind = "StrtableBad"

\* C5: no path occurs twice in the list of one (machine, soname) key, in the
\* accumulator or in a report, and each count is the number of distinct paths.
C5_PathsUniquePerKey ==
    /\ \A k \in Keys(aboba) : NoRepeat(aboba[k[1]][k[2]])
    /\ \A n \in DOMAIN reports : \A i \in 1..Len(reports[n]) :
           /\ NoRepeat(reports[n][i].exes)
           /\ reports[n][i].count = Cardinality(Range(reports[n][i].exes))

\* C6: whatever the order the files were processed in, the finished scan's report
\* files are those of the scan that takes the files in ascending path order.
C6_ReportIndependentOfOrder ==
    pc = "done" => reports = EmitAll(InOrderAboba, DOMAIN InOrderAboba, EmptyMap)

\* a finished scan whose accumulator differs from the in-order one, with a report
C6_Witness ==
    /\ pc = "done"
    /\ aboba # InOrderAboba
    /\ reports # EmptyMap

\* C7: in every report the paths under a library are in ascending order, and are
\* the paths accumulated for it.
C7_PathsAscending ==
    \A n \in DOMAIN reports : \A i \in 1..Len(reports[n]) :
        LET acc == aboba[Owner(n)][reports[n][i].soname]
        IN /\ Ascending(reports[n][i].exes)
           /\ Len(reports[n][i].exes) = Len(acc)
           /\ \A p \in Range(acc) : Count(p, reports[n][i].exes) = Count(p, acc)

\* a finished scan that accumulated some library's paths out of order
C7_Witness ==
    /\ pc = "done"
    /\ \E k \in Keys(aboba) : ~Ascending(aboba[k[1]][k[2]])

\* C8 (as amended): after the scan the report files are exactly those named for
\* the machines of the files that parsed and yielded at least one library name;
\* machines of one name share one file, which holds the largest machine's report.
C8_ReportPerContributingMachineName ==
    pc = "done" =>
        /\ DOMAIN reports =
               {FileName(results[f].machine) :
                    f \in {g \in Processed : results[g].kind = "Ok" /\ results[g].libs # <<>>}}
        /\ \A n \in DOMAIN reports : reports[n] = ReportOf(aboba[Owner(n)])

\* C8 as stated: one report for each distinct machine among the files that parsed,
\* whether or not they have DT_NEEDED entries, and no other report.
C8_ReportPerParsedMachine ==
    pc = "done" =>
        LET machines == {results[f].machine : f \in {g \in Processed : results[g].kind = "Ok"}}
        IN /\ \A m \in machines : FileName(m) \in DOMAIN reports
           /\ Cardinality(DOMAIN reports) = Cardinality(machines)

\* a finished scan with a report, and a parsed file without libraries whose
\* machine has none
C8_Witness ==
    /\ pc = "done"
    /\ reports # EmptyMap
    /\ \E f \in Processed :
           /\ results[f].kind = "Ok"
           /\ results[f].libs = <<>>
           /\ FileName(results[f].machine) \notin DOMAIN reports

\* C9: the names of a parsed file are those read from the string table at the
\* file offset DT_STRTAB translates to through the program header.
C9_NamesFromTranslatedOffset ==
    \A f \in Processed :
        (ReachesTable(fs[f]) /\ HasBothTags(fs[f]))
            => /\ results[f].kind = "Ok"
               /\ results[f].libs =
                      get_libraries(fs[f].dyns,
                          StrtabParse(fs[f].bytes, InfoStrtab(fs[f]), InfoStrsz(fs[f]))[1])

\* C10: folding a parsed file f of machine a with names L appends f to the list
\* of (a, l) once per occurrence of l in L, creates exactly the missing keys
\* (a, l), and leaves every other key's list as it was.
C10_FoldAppendsAndFrames ==
    [][\A f \in todo :
           (todo' = todo \ {f} /\ process_one(fs[f]).kind = "Ok") =>
               LET r == process_one(fs[f])
               IN /\ Keys(aboba') = Keys(aboba) \cup {<<r.machine, l>> : l \in Range(r.libs)}
                  /\ \A k \in Keys(aboba') :
                         PathsOf(aboba', k[1], k[2]) =
                             PathsOf(aboba, k[1], k[2])
                                 \o (IF k[1] = r.machine
                                     THEN Repeat(f, Count(k[2], r.libs)) ELSE <<>>)
      ]_vars

\* a key that already held another file's path has had a second path appended,
\* next to a key of one path
C10_Witness ==
    /\ \E k \in Keys(aboba) :
           Len(aboba[k[1]][k[2]]) = 2 /\ aboba[k[1]][k[2]][1] # aboba[k[1]][k[2]][2]
    /\ \E k \in Keys(aboba) : Len(aboba[k[1]][k[2]]) = 1
====
